---- MODULE Spec2Model ----
(***************************************************************************)
(* A model of sp-rest-api.js (SpRestApi): one client instance, the         *)
(* requests it hands to $.ajax, the answers of the transport and the       *)
(* continuations that run on them.                                         *)
(*                                                                         *)
(* JavaScript strings are TLA+ strings (Len, \o and SubSeq act on them     *)
(* character by character).  A JavaScript value whose type varies (an item *)
(* identifier) is a tagged record: Num(n), Str(s) or Undefined.  An object *)
(* whose set of properties varies (a response, the options) is a function  *)
(* on the names of its properties; reading a missing property is tested    *)
(* with Has.                                                               *)
(***************************************************************************)
EXTENDS Integers, Sequences, FiniteSets, TLC

VARIABLES
    options,          \* this.options (the same object as this.defaultOptions)
    cachedListItems,  \* this.cachedListItems
    heap,             \* the arrays this.cachedListItems has referred to, in the
                      \* order they were created; the last one is the one it
                      \* refers to now
    windowOptions,    \* the global variable `options` (window.options)
    pending,          \* the requests handed to $.ajax and not yet answered
    ops,              \* the calls made so far, each with what it led to
    helper,           \* the helper function applied on its own ("" when none)
    input,            \* the argument it is applied to
    output            \* what it returned

vars == <<options, cachedListItems, heap, windowOptions, pending, ops,
          helper, input, output>>

---------------------------------------------------------------------------
(* Bounds of the model *)

\* API calls made on the instance in one run
MaxCalls == 2
\* requests handed to the transport in one run
MaxRequests == 3
\* items on each page the server returns
ItemsPerPage == 2
\* parts of the URLs handed to addMaxItems on its own
MaxUrlParts == 3
\* the parts a list title given to getListItemType on its own is made of
MaxTitleParts == 3

---------------------------------------------------------------------------
(* JavaScript values *)

Num(n) == [type |-> "number", num |-> n]
Str(s) == [type |-> "string", str |-> s]
Undefined == [type |-> "undefined"]

\* !v
Falsy(v) ==
    \/ v.type = "undefined"
    \/ v.type = "number" /\ v.num = 0
    \/ v.type = "string" /\ v.str = ""

Digits == <<"0", "1", "2", "3", "4", "5", "6", "7", "8", "9">>

\* String(n) for a non-negative integer n
RECURSIVE NumberToString(_)
NumberToString(n) ==
    IF n < 10 THEN Digits[n + 1]
    ELSE NumberToString(n \div 10) \o Digits[(n % 10) + 1]

\* String(v), the conversion String.prototype.replace applies to what its
\* replacer function returns
JsString(v) ==
    CASE v.type = "number" -> NumberToString(v.num)
      [] v.type = "string" -> v.str
      [] OTHER -> "undefined"

\* obj has the property key
Has(obj, key) == key \in DOMAIN obj

\* $.extend(target, partial): the properties of partial overwrite target's
Extend(target, partial) ==
    [k \in (DOMAIN target) \cup (DOMAIN partial) |->
        IF k \in DOMAIN partial THEN partial[k] ELSE target[k]]

---------------------------------------------------------------------------
(* Strings *)

CharAt(s, i) == SubSeq(s, i, i)

\* the least element of a non-empty set of integers
Least(S) == CHOOSE i \in S : \A j \in S : i <= j

\* s.indexOf(sub, from) as a 1-based position, 0 when there is none
IndexFrom(s, sub, from) ==
    LET found == {i \in from..(Len(s) - Len(sub) + 1) :
                      SubSeq(s, i, i + Len(sub) - 1) = sub}
    IN  IF found = {} THEN 0 ELSE Least(found)

\* String.prototype.includes (part_002:481-494; the native one agrees)
Includes(s, search) ==
    IF 0 + Len(search) > Len(s) THEN FALSE
    ELSE IndexFrom(s, search, 1) # 0

\* the number of (non-overlapping, left to right) occurrences of sub in s
RECURSIVE CountFrom(_, _, _)
CountFrom(s, sub, from) ==
    LET i == IndexFrom(s, sub, from)
    IN  IF i = 0 THEN 0 ELSE 1 + CountFrom(s, sub, i + Len(sub))

Occurrences(s, sub) == CountFrom(s, sub, 1)

IsDigit(c) == \E d \in 1..10 : Digits[d] = c

DigitValue(c) == (CHOOSE d \in 1..10 : Digits[d] = c) - 1

\* the end of the run of digits that starts at position i (i - 1 if none)
RECURSIVE DigitsEnd(_, _)
DigitsEnd(s, i) ==
    IF i <= Len(s) /\ IsDigit(CharAt(s, i)) THEN DigitsEnd(s, i + 1) ELSE i - 1

\* the number written by the digits s[i..j]
RECURSIVE ParseDigits(_, _, _)
ParseDigits(s, i, j) ==
    IF j < i THEN 0
    ELSE ParseDigits(s, i, j - 1) * 10 + DigitValue(CharAt(s, j))

\* String.prototype.format: every {n} becomes String(args[n]) when args[n] is
\* not undefined and stays as it is otherwise.  args is the sequence of the
\* arguments (args[n] of the code is args[n + 1] here).  The scan goes from
\* one "{" to the next; i is where the text not yet copied starts.
RECURSIVE FormatFrom(_, _, _, _)
FormatFrom(s, args, i, from) ==
    LET open == IndexFrom(s, "{", from)
    IN  IF open = 0 THEN SubSeq(s, i, Len(s))
        ELSE LET j == DigitsEnd(s, open + 1)
                 isMatch == /\ j >= open + 1
                            /\ j + 1 <= Len(s)
                            /\ CharAt(s, j + 1) = "}"
             IN  IF isMatch
                 THEN LET number == ParseDigits(s, open + 1, j)
                          match == SubSeq(s, open, j + 1)
                          defined == /\ number + 1 <= Len(args)
                                     /\ args[number + 1].type # "undefined"
                      IN  SubSeq(s, i, open - 1)
                              \o (IF defined THEN JsString(args[number + 1]) ELSE match)
                              \o FormatFrom(s, args, j + 2, j + 2)
                 ELSE FormatFrom(s, args, i, open + 1)

Format(s, args) == FormatFrom(s, args, 1, 1)

LowerCase == "abcdefghijklmnopqrstuvwxyz"
UpperCase == "ABCDEFGHIJKLMNOPQRSTUVWXYZ"

LowerLetters ==
    {"a", "b", "c", "d", "e", "f", "g", "h", "i", "j", "k", "l", "m", "n",
     "o", "p", "q", "r", "s", "t", "u", "v", "w", "x", "y", "z"}

UpperLetters ==
    {"A", "B", "C", "D", "E", "F", "G", "H", "I", "J", "K", "L", "M", "N",
     "O", "P", "Q", "R", "S", "T", "U", "V", "W", "X", "Y", "Z"}

\* [a-z]
IsLower(c) == c \in LowerLetters

\* \w of a regular expression: [A-Za-z0-9_]
DigitChars == {"0", "1", "2", "3", "4", "5", "6", "7", "8", "9"}

WordChars == LowerLetters \cup UpperLetters \cup DigitChars \cup {"_"}

IsWordChar(c) == c \in WordChars

\* letter.toUpperCase() for a letter of [a-z]
ToUpperCase(c) == CharAt(UpperCase, IndexFrom(LowerCase, c, 1))

\* the positions /\b[a-z]/ matches: a lower-case letter at the start or after
\* a character that is not of \w
WordStarts(s) ==
    {i \in 1..Len(s) :
        /\ IsLower(CharAt(s, i))
        /\ i = 1 \/ ~IsWordChar(CharAt(s, i - 1))}

\* String.prototype.capitalize: replace(/\b[a-z]/g, toUpperCase), from one
\* match to the next
RECURSIVE CapitalizeFrom(_, _)
CapitalizeFrom(s, i) ==
    LET starts == {k \in WordStarts(s) : k >= i}
    IN  IF starts = {} THEN SubSeq(s, i, Len(s))
        ELSE LET k == Least(starts)
             IN  SubSeq(s, i, k - 1) \o ToUpperCase(CharAt(s, k))
                     \o CapitalizeFrom(s, k + 1)

Capitalize(s) == CapitalizeFrom(s, 1)

\* s.replace(/c/g, replacement) for a single character c, from one match to
\* the next
RECURSIVE ReplaceFrom(_, _, _, _)
ReplaceFrom(s, c, replacement, i) ==
    LET k == IndexFrom(s, c, i)
    IN  IF k = 0 THEN SubSeq(s, i, Len(s))
        ELSE SubSeq(s, i, k - 1) \o replacement \o ReplaceFrom(s, c, replacement, k + 1)

\* a replace without the g flag: the first match only
ReplaceFirst(s, c, replacement) ==
    LET k == IndexFrom(s, c, 1)
    IN  IF k = 0 THEN s
        ELSE SubSeq(s, 1, k - 1) \o replacement \o SubSeq(s, k + 1, Len(s))

ReplaceAll(s, c, replacement) == ReplaceFrom(s, c, replacement, 1)

---------------------------------------------------------------------------
(* JSON.stringify for the objects the callers pass: an object is Obj(props), *)
(* props the sequence of its <<name, value>> pairs in insertion order.       *)

Obj(props) == [type |-> "object", props |-> props]

\* obj[key] = value: replaces the property in place, or adds it at the end
SetProp(obj, key, value) ==
    IF \E i \in 1..Len(obj.props) : obj.props[i][1] = key
    THEN Obj([i \in 1..Len(obj.props) |->
                 IF obj.props[i][1] = key THEN <<key, value>> ELSE obj.props[i]])
    ELSE Obj(Append(obj.props, <<key, value>>))

RECURSIVE JSONStringify(_)
RECURSIVE StringifyProps(_, _)
StringifyProps(props, i) ==
    IF i > Len(props) THEN ""
    ELSE (IF i > 1 THEN "," ELSE "")
            \o "\"" \o props[i][1] \o "\":" \o JSONStringify(props[i][2])
            \o StringifyProps(props, i + 1)

JSONStringify(v) ==
    CASE v.type = "number" -> NumberToString(v.num)
      [] v.type = "string" -> "\"" \o v.str \o "\""
      [] v.type = "object" -> "{" \o StringifyProps(v.props, 1) \o "}"

---------------------------------------------------------------------------
(* The class: SpRestApi.Verbosity, the constructor and its defaults *)

COMPACT == "application/json;odata=nometadata"
MINIMAL == "application/json;odata=minimalmetadata"
VERBOSE == "application/json;odata=verbose"

\* _spPageContextInfo.webAbsoluteUrl of the page the script runs in
WebAbsoluteUrl == "http://sp/sites/a"

\* document.getElementById("__REQUESTDIGEST").value of that page
RequestDigest == "digest0"

DefaultOptions ==
    [onsuccess |-> "console.log",
     onerror |-> "console.log",
     listTitle |-> "",
     maxItems |-> 100,
     recursiveFetch |-> TRUE,
     verbosity |-> VERBOSE,
     siteUrl |-> WebAbsoluteUrl,
     token |-> RequestDigest,
     urls |-> [list |-> "/_api/web/lists/getbytitle('{0}')/items",
               item |-> "/_api/web/lists/getbytitle('{0}')/items({1})",
               user |-> "/_api/Web/GetUserById({0})?$expand=Groups"]]

\* new SpRestApi(ctorOptions): this.options = $.extend(this.defaultOptions, options)
Constructor(ctorOptions) == Extend(DefaultOptions, ctorOptions)

---------------------------------------------------------------------------
(* The history: ops[o] is the o-th call of an API method, with               *)
(*   name, args      the method and its arguments                            *)
(*   options         this.options when it was called                         *)
(*   alone           no request of another call was outstanding when it was  *)
(*                   made and no call has been made while a request of it    *)
(*                   was outstanding                                         *)
(*   quiet           no request of a fetch of all items was outstanding when *)
(*                   it was made                                             *)
(*   log             what the call led to, in order:                         *)
(*     request:  loadUrl handed settings to $.ajax                           *)
(*     response: the transport answered the request at index request of log  *)
(*     callback: a continuation given in the options, or the callback given  *)
(*               to refreshDigest, was invoked with arg                      *)
(*     throw:    an exception left the library                               *)
(* pending holds the requests not answered yet, each as <<o, k>>: the        *)
(* request at ops[o].log[k].                                                 *)

NumCalls == Len(ops)

\* the methods that fetch all items
FetchNames == {"getAllItems", "getAllItemsFromListSubfolder"}

Ops == 1..Len(ops)

\* the indices of the events of one kind in a log
EventsOf(log, kind) == {k \in 1..Len(log) : log[k].kind = kind}

Outstanding(o) == {p \in pending : p[1] = o}

\* the requests handed to $.ajax so far
RECURSIVE RequestsUpTo(_)
RequestsUpTo(o) ==
    IF o = 0 THEN 0
    ELSE RequestsUpTo(o - 1) + Cardinality(EventsOf(ops[o].log, "request"))

NumRequests == RequestsUpTo(Len(ops))

\* the run may hand one more request to the transport
CanRequest == NumRequests < MaxRequests

RequestEvent(settings) == [kind |-> "request", settings |-> settings]

ResponseEvent(k, ok, payload) ==
    [kind |-> "response", request |-> k, ok |-> ok, payload |-> payload]

CallbackEvent(via, fn, arg) == [kind |-> "callback", via |-> via, fn |-> fn, arg |-> arg]

\* the success continuation of the caller was handed a result whose items
\* are the array heap[ref]
DeliveryEvent(fn, arg, ref) ==
    [kind |-> "callback", via |-> "success", fn |-> fn, arg |-> arg, ref |-> ref]

ThrowEvent(message) == [kind |-> "throw", message |-> message]

\* an assignment that changed the array this.cachedListItems refers to
\* instead of making a new one
ModifyArrayInPlace(array) == [heap EXCEPT ![Len(heap)] = array]

\* this.cachedListItems = <a new array> ([] or the result of concat): the
\* arrays there were stay as they are
AssignNewArray(array) == Append(heap, array)

\* the calls so far, once one more call is being made
Interrupted ==
    [o \in Ops |-> IF Outstanding(o) # {} THEN [ops[o] EXCEPT !.alone = FALSE]
                   ELSE ops[o]]

\* one more call, which led to log at once
Called(name, args, log) ==
    Append(Interrupted,
           [name |-> name, args |-> args, options |-> options,
            alone |-> pending = {},
            quiet |-> \A p \in pending : ops[p[1]].name \notin FetchNames,
            log |-> log])

\* ops with events added to the log of call o
Logged(o, added) == [ops EXCEPT ![o].log = @ \o added]

---------------------------------------------------------------------------
(* The continuations loadUrl is given *)

\* $.proxy(this.continueRecursiveFetch, this)
ContinueProxy == [fn |-> "continueRecursiveFetch", callback |-> Undefined]

\* a function of the caller (this.options.onsuccess, this.options.onerror)
Fn(name) == [fn |-> name, callback |-> Undefined]

\* the closures `success` and `error` of refreshDigest(callback)
RefreshSuccess(callback) == [fn |-> "refreshDigest.success", callback |-> callback]
RefreshError == [fn |-> "refreshDigest.error", callback |-> Undefined]

\* a function the caller passes to refreshDigest
Function(name) == [type |-> "function", name |-> name]

---------------------------------------------------------------------------
(* URLs *)

\* an addMaxItems that always starts a query string
AddMaxItemsWithQuestionMark(url) ==
    url \o "?" \o "$top=" \o NumberToString(options.maxItems)

\* SpRestApi.prototype.addMaxItems
AddMaxItems(url) ==
    LET withSeparator == url \o (IF Includes(url, "?") THEN "&" ELSE "?")
    IN  withSeparator \o "$top=" \o NumberToString(options.maxItems)

\* SpRestApi.prototype.generateGetAllListItemsUrl
GenerateGetAllListItemsUrl ==
    AddMaxItems(options.siteUrl \o Format(options.urls.list, <<Str(options.listTitle)>>))

\* a generateSingleListItemUrl that formats the URL of the list
GenerateSingleListItemUrlOfList(itemId) ==
    options.siteUrl \o Format(options.urls.list, <<Str(options.listTitle), itemId>>)

\* SpRestApi.prototype.generateSingleListItemUrl
GenerateSingleListItemUrl(itemId) ==
    options.siteUrl \o Format(options.urls.item, <<Str(options.listTitle), itemId>>)

---------------------------------------------------------------------------
(* SpRestApi.prototype.loadUrl: the settings object handed to $.ajax *)

\* headers without the unconditional match for DELETE and MERGE
HeadersWithoutIfMatch(method) ==
    LET common == ("Accept" :> options.verbosity) @@ ("X-RequestDigest" :> options.token)
    IN  IF method = "DELETE" \/ method = "MERGE"
        THEN common @@ ("X-HTTP-METHOD" :> method)
        ELSE common

Headers(method) ==
    LET common == ("Accept" :> options.verbosity) @@ ("X-RequestDigest" :> options.token)
    IN  IF method = "DELETE" \/ method = "MERGE"
        THEN common @@ ("IF-MATCH" :> "*") @@ ("X-HTTP-METHOD" :> method)
        ELSE common

\* a loadUrl that takes the token from the page, not from the options
LoadUrlWithDigestOfPage(url, method, success, error, data) ==
    [url |-> url,
     type |-> IF method = "DELETE" \/ method = "MERGE" THEN "POST" ELSE method,
     cache |-> FALSE,
     data |-> IF data.type # "undefined" THEN JSONStringify(data) ELSE "",
     contentType |-> options.verbosity,
     headers |-> ("X-RequestDigest" :> RequestDigest) @@ Headers(method),
     success |-> success,
     error |-> error]

LoadUrl(url, method, success, error, data) ==
    [url |-> url,
     type |-> IF method = "DELETE" \/ method = "MERGE" THEN "POST" ELSE method,
     cache |-> FALSE,
     data |-> IF data.type # "undefined" THEN JSONStringify(data) ELSE "",
     contentType |-> options.verbosity,
     headers |-> Headers(method),
     success |-> success,
     error |-> error]

\* a call that hands one request to $.ajax
CallAndRequest(name, args, settings) ==
    /\ CanRequest
    /\ ops' = Called(name, args, <<RequestEvent(settings)>>)
    /\ pending' = pending \cup {<<NumCalls + 1, 1>>}

\* a call that throws before any request
CallAndThrow(name, args, message) ==
    /\ ops' = Called(name, args, <<ThrowEvent(message)>>)
    /\ pending' = pending

---------------------------------------------------------------------------
(* The server behind the transport.  It answers in the shape the Accept     *)
(* header of the request asks for.  A collection is served in pages of      *)
(* ItemsPerPage items; the next-link of a page is the URL of the first page *)
(* with the number of the next page as its $skiptoken.                      *)

SkipToken == "&$skiptoken="

BaseUrl(url) ==
    LET i == IndexFrom(url, SkipToken, 1)
    IN  IF i = 0 THEN url ELSE SubSeq(url, 1, i - 1)

PageNumber(url) ==
    LET i == IndexFrom(url, SkipToken, 1)
    IN  IF i = 0 THEN 1 ELSE ParseDigits(url, i + Len(SkipToken), Len(url))

NextLink(url) == BaseUrl(url) \o SkipToken \o NumberToString(PageNumber(url) + 1)

Item(list, id) == [type |-> "item", list |-> list, id |-> id]

PageItems(url) ==
    LET list == BaseUrl(url)
        before == (PageNumber(url) - 1) * ItemsPerPage
    IN  [j \in 1..ItemsPerPage |-> Item(list, before + j)]

\* what a page says about the page after it: no next-link, an empty one, or
\* the URL of the next page
Links == {"none", "empty", "next"}

\* one page of a collection
Page(accept, url, link) ==
    LET next == IF link = "next" THEN NextLink(url) ELSE ""
        items == PageItems(url)
    IN  IF accept = VERBOSE
        THEN [d |-> IF link # "none" THEN [results |-> items, __next |-> next]
                                     ELSE [results |-> items]]
        ELSE IF link # "none"
             THEN ("value" :> items) @@ ("odata.nextLink" :> next)
             ELSE ("value" :> items)

\* a single entity (an item read, created or changed)
Entity(accept, url) ==
    IF accept = VERBOSE THEN [d |-> [uri |-> url]] ELSE [uri |-> url]

\* the token the server hands out at /_api/contextinfo
ServerDigest == "digest1"

DigestShapes == {"d", "value", "plain"}

ContextInfo(shape) ==
    LET info == [FormDigestValue |-> ServerDigest]
    IN  CASE shape = "d" -> [d |-> [GetContextWebInformation |-> info]]
          [] shape = "value" -> [value |-> [GetContextWebInformation |-> info]]
          [] OTHER -> info

\* the request is for the context information: its URL ends with the path
ContextInfoPath == "/_api/contextinfo"

IsContextInfo(settings) ==
    LET url == settings.url
    IN  /\ Len(url) >= Len(ContextInfoPath)
        /\ SubSeq(url, Len(url) - Len(ContextInfoPath) + 1, Len(url)) = ContextInfoPath

IsCollection(settings) == settings.type = "GET" /\ Includes(settings.url, "/items?")

\* the server's answer to a request; link and shape are the server's choices
ServerResponse(settings, link, shape) ==
    IF IsContextInfo(settings) THEN ContextInfo(shape)
    ELSE IF IsCollection(settings)
         THEN Page(settings.headers["Accept"], settings.url, link)
         ELSE Entity(settings.headers["Accept"], settings.url)

\* the choices <<link, shape>> the server has for a request: a next-link
\* for a page of a collection, a shape for the context information
ServerChoices(settings) ==
    IF IsContextInfo(settings) THEN {<<"none", shape>> : shape \in DigestShapes}
    ELSE IF IsCollection(settings) THEN {<<link, "d">> : link \in Links}
    ELSE {<<"none", "d">>}

\* the settings of the outstanding request p
Settings(p) == ops[p[1]].log[p[2]].settings

\* what the transport hands to the error continuation of request p
ErrorPayload(p) == [status |-> 500, url |-> Settings(p).url, request |-> p]

---------------------------------------------------------------------------
(* What the callers pass *)

\* the options given to the constructor
CtorOptions ==
    <<[listTitle |-> "Projects", onsuccess |-> "s1", onerror |-> "e1"]>>

\* the partial options given to config()
ConfigOptions ==
    <<[verbosity |-> COMPACT, token |-> "digest2", onsuccess |-> "s2", onerror |-> "e2"],
      [verbosity |-> VERBOSE],
      [recursiveFetch |-> FALSE]>>

ListTitles == {"My List"}

SubfolderNames == {"Sub"}

\* the identifiers given to getItem and deleteItem
ItemIds == {Num(0), Str(""), Num(7)}

\* the identifiers given to updateItem
UpdatedIds == {Num(0), Num(7)}

NewItems == {Obj(<<<<"Title", Str("x")>>>>)}

RefreshCallbacks == {Function("initializePage")}

---------------------------------------------------------------------------
(* The API calls *)

CanCall == NumCalls < MaxCalls

\* SpRestApi.prototype.lists
Lists(listTitle) ==
    /\ CanCall
    /\ options' = [options EXCEPT !.listTitle = listTitle]
    /\ ops' = Called("lists", <<Str(listTitle)>>, <<>>)
    /\ UNCHANGED <<cachedListItems, heap, windowOptions, pending, helper, input, output>>

\* a config that merges the partial options into the original defaults
ConfigFromDefaults(partial) ==
    /\ CanCall
    /\ options' = Extend(DefaultOptions, partial)
    /\ ops' = Called("config", <<partial>>, <<>>)
    /\ UNCHANGED <<cachedListItems, heap, windowOptions, pending, helper, input, output>>

\* SpRestApi.prototype.config.  this.defaultOptions is the object the
\* constructor made this.options ($.extend returns its target), so the merge
\* is into the current options.
Config(partial) ==
    /\ CanCall
    /\ options' = Extend(options, partial)
    /\ ops' = Called("config", <<partial>>, <<>>)
    /\ UNCHANGED <<cachedListItems, heap, windowOptions, pending, helper, input, output>>

\* a fetch that goes on page after page whatever recursiveFetch says
FetchOnSuccessAlwaysRecursive == ContinueProxy

\* the success continuation of a fetch of all items
FetchOnSuccess == IF options.recursiveFetch THEN ContinueProxy ELSE Fn(options.onsuccess)

\* a getAllItems that leaves the buffer as it is
GetAllItemsKeepingBuffer ==
    /\ CanCall
    /\ LET url == GenerateGetAllListItemsUrl
       IN  CallAndRequest("getAllItems", <<>>,
               LoadUrl(url, "GET", FetchOnSuccess, Fn(options.onerror), Undefined))
    /\ UNCHANGED <<options, cachedListItems, heap, windowOptions, helper, input, output>>

\* SpRestApi.prototype.getAllItems
GetAllItems ==
    /\ CanCall
    /\ LET url == GenerateGetAllListItemsUrl
       IN  CallAndRequest("getAllItems", <<>>,
               LoadUrl(url, "GET", FetchOnSuccess, Fn(options.onerror), Undefined))
    /\ cachedListItems' = <<>>
    /\ heap' = AssignNewArray(<<>>)
    /\ UNCHANGED <<options, windowOptions, helper, input, output>>

\* a subfolder URL that puts the filter before the page limit
SubfolderUrlFilterFirst(subfolderName) ==
    LET fileref == "Lists/" \o options.listTitle \o "/" \o subfolderName \o "/"
    IN  AddMaxItems(options.siteUrl
                        \o Format(options.urls.list, <<Str(options.listTitle)>>)
                        \o "?$filter=substringof('" \o fileref \o "', FileRef)")

\* the URL of SpRestApi.prototype.getAllItemsFromListSubfolder
SubfolderUrl(subfolderName) ==
    LET fileref == "Lists/" \o options.listTitle \o "/" \o subfolderName \o "/"
    IN  GenerateGetAllListItemsUrl \o "&$filter=substringof('" \o fileref \o "', FileRef)"

\* a getAllItemsFromListSubfolder that leaves the buffer as it is
GetAllItemsFromListSubfolderKeepingBuffer(subfolderName) ==
    /\ CanCall
    /\ CallAndRequest("getAllItemsFromListSubfolder", <<Str(subfolderName)>>,
           LoadUrl(SubfolderUrl(subfolderName), "GET", FetchOnSuccess,
                   Fn(options.onerror), Undefined))
    /\ UNCHANGED <<options, cachedListItems, heap, windowOptions, helper, input, output>>

\* SpRestApi.prototype.getAllItemsFromListSubfolder
GetAllItemsFromListSubfolder(subfolderName) ==
    /\ CanCall
    /\ CallAndRequest("getAllItemsFromListSubfolder", <<Str(subfolderName)>>,
           LoadUrl(SubfolderUrl(subfolderName), "GET", FetchOnSuccess,
                   Fn(options.onerror), Undefined))
    /\ cachedListItems' = <<>>
    /\ heap' = AssignNewArray(<<>>)
    /\ UNCHANGED <<options, windowOptions, helper, input, output>>

\* the URL of SpRestApi.prototype.getItem
GetItemUrl(itemId) ==
    options.siteUrl \o Format(options.urls.item, <<Str(options.listTitle), itemId>>)

\* a getItem that rejects only a missing identifier
GetItemRejectingOnlyUndefined(itemId) ==
    /\ CanCall
    /\ IF itemId.type = "undefined"
       THEN CallAndThrow("getItem", <<itemId>>, "The list item ID must not be empty.")
       ELSE LET url == GetItemUrl(itemId)
            IN  CallAndRequest("getItem", <<itemId>>,
                    LoadUrl(url, "GET", Fn(options.onsuccess), Fn(options.onerror),
                            Undefined))
    /\ UNCHANGED <<options, cachedListItems, heap, windowOptions, helper, input, output>>

\* SpRestApi.prototype.getItem
GetItem(itemId) ==
    /\ CanCall
    /\ IF Falsy(itemId)
       THEN CallAndThrow("getItem", <<itemId>>, "The list item ID must not be empty.")
       ELSE LET url == GetItemUrl(itemId)
            IN  CallAndRequest("getItem", <<itemId>>,
                    LoadUrl(url, "GET", Fn(options.onsuccess), Fn(options.onerror),
                            Undefined))
    /\ UNCHANGED <<options, cachedListItems, heap, windowOptions, helper, input, output>>

\* an item sent as the caller gave it
WithoutMetadata(item, listItemType) == item

\* item.__metadata = { "type": SpRestApi.getListItemType(this.options.listTitle) }
WithMetadata(item, listItemType) ==
    SetProp(item, "__metadata", Obj(<<<<"type", Str(listItemType)>>>>))

\* a replaceSharepointSpecialChars that escapes the underscores last
ReplaceSharepointSpecialCharsUnderscoreLast(inputString) ==
    ReplaceAll(ReplaceAll(ReplaceAll(inputString, " ", "_x0020_"), "&", "_x0026_"),
               "_", "_x005f_")

\* SpRestApi.replaceSharepointSpecialChars
ReplaceSharepointSpecialChars(inputString) ==
    ReplaceAll(ReplaceAll(ReplaceAll(inputString, "_", "_x005f_"), " ", "_x0020_"),
               "&", "_x0026_")

\* SpRestApi.getListItemType
GetListItemType(listTitle) ==
    ReplaceSharepointSpecialChars("SP.Data." \o Capitalize(listTitle) \o "ListItem")

\* SpRestApi.prototype.createItem
CreateItem(item) ==
    /\ CanCall
    /\ LET withType == WithMetadata(item, GetListItemType(options.listTitle))
           url == GenerateGetAllListItemsUrl
       IN  CallAndRequest("createItem", <<item>>,
               LoadUrl(url, "POST", Fn(options.onsuccess), Fn(options.onerror), withType))
    /\ UNCHANGED <<options, cachedListItems, heap, windowOptions, helper, input, output>>

\* SpRestApi.prototype.updateItem
UpdateItem(listItemId, item) ==
    /\ CanCall
    /\ LET withType == WithMetadata(item, GetListItemType(options.listTitle))
           url == GenerateSingleListItemUrl(listItemId)
       IN  CallAndRequest("updateItem", <<listItemId, item>>,
               LoadUrl(url, "MERGE", Fn(options.onsuccess), Fn(options.onerror), withType))
    /\ UNCHANGED <<options, cachedListItems, heap, windowOptions, helper, input, output>>

\* SpRestApi.prototype.deleteItem
DeleteItem(itemId) ==
    /\ CanCall
    /\ LET url == GenerateSingleListItemUrl(itemId)
       IN  CallAndRequest("deleteItem", <<itemId>>,
               LoadUrl(url, "DELETE", Fn(options.onsuccess), Fn(options.onerror),
                       Undefined))
    /\ UNCHANGED <<options, cachedListItems, heap, windowOptions, helper, input, output>>

\* this.siteUrl in refreshDigest: the instance has no property siteUrl (the
\* site URL is this.options.siteUrl), so the read gives undefined
ThisSiteUrl == Undefined

\* SpRestApi.prototype.refreshDigest: the call
RefreshDigest(callback) ==
    /\ CanCall
    /\ LET url == JsString(ThisSiteUrl) \o "/_api/contextinfo"
       IN  CallAndRequest("refreshDigest", <<callback>>,
               LoadUrl(url, "POST", RefreshSuccess(callback), RefreshError, Undefined))
    /\ UNCHANGED <<options, cachedListItems, heap, windowOptions, helper, input, output>>

---------------------------------------------------------------------------
(* SpRestApi.prototype.continueRecursiveFetch *)

\* reading data.d.results of a response without d throws a TypeError
ReadThrows(data) == options.verbosity = VERBOSE /\ ~Has(data, "d")

\* newData is an array (not undefined)
HasNewData(data) ==
    IF options.verbosity = VERBOSE THEN Has(data.d, "results") ELSE Has(data, "value")

NewData(data) ==
    IF options.verbosity = VERBOSE THEN data.d.results ELSE data.value

\* an if (nextUrl) that takes any next-link there is, the empty one too
HasNextUrlWhenPresent(data) ==
    IF options.verbosity = VERBOSE
    THEN Has(data.d, "__next")
    ELSE Has(data, "odata.nextLink")

\* if (nextUrl): the property is there and is not the empty string
HasNextUrl(data) ==
    IF options.verbosity = VERBOSE
    THEN Has(data.d, "__next") /\ data.d.__next # ""
    ELSE Has(data, "odata.nextLink") /\ data["odata.nextLink"] # ""

NextUrl(data) ==
    IF options.verbosity = VERBOSE THEN data.d.__next ELSE data["odata.nextLink"]

\* a buffer that keeps only the newest page
ConcatKeepingLastPage(array, data) ==
    IF HasNewData(data) THEN NewData(data) ELSE <<Undefined>>

\* this.cachedListItems.concat(newData): an array is spread, any other value
\* (undefined) is added as one element
Concat(array, data) ==
    IF HasNewData(data) THEN array \o NewData(data) ELSE Append(array, Undefined)

\* an entireData that is always in the verbose shape
EntireDataAlwaysVerbose(items) == [d |-> [results |-> items]]

\* entireData
EntireData(items) ==
    IF options.verbosity = VERBOSE THEN [d |-> [results |-> items]] ELSE [value |-> items]

\* a follow-up request that asks for the first page again
NextPageRequestForFirstPage(nextUrl) ==
    LoadUrl(GenerateGetAllListItemsUrl, "GET", ContinueProxy, Fn(options.onerror), Undefined)

\* the request for the next page
NextPageRequest(nextUrl) ==
    LoadUrl(nextUrl, "GET", ContinueProxy, Fn(options.onerror), Undefined)

\* the transport answers request p with data and loadUrl's success function
\* runs continueRecursiveFetch(data)
ContinueRecursiveFetch(p, data) ==
    /\ p \in pending
    /\ Settings(p).success.fn = "continueRecursiveFetch"
    /\ LET o == p[1]
           answer == ResponseEvent(p[2], TRUE, data)
       IN  IF ReadThrows(data)
           THEN /\ ops' = Logged(o, <<answer, ThrowEvent("TypeError")>>)
                /\ pending' = pending \ {p}
                /\ cachedListItems' = cachedListItems
                /\ heap' = heap
           ELSE /\ cachedListItems' = Concat(cachedListItems, data)
                /\ heap' = AssignNewArray(cachedListItems')
                /\ IF HasNextUrl(data)
                   THEN /\ CanRequest
                        /\ ops' = Logged(o, <<answer,
                                             RequestEvent(NextPageRequest(NextUrl(data)))>>)
                        /\ pending' = (pending \ {p}) \cup {<<o, Len(ops[o].log) + 2>>}
                   ELSE /\ ops' = Logged(o, <<answer,
                                             DeliveryEvent(options.onsuccess,
                                                           EntireData(cachedListItems'),
                                                           Len(heap'))>>)
                        /\ pending' = pending \ {p}
    /\ UNCHANGED <<options, windowOptions, helper, input, output>>

---------------------------------------------------------------------------
(* The other continuations *)

\* loadUrl's success function calls a function of the caller
CallerSuccess(p, data) ==
    /\ p \in pending
    /\ Settings(p).success.fn \notin {"continueRecursiveFetch", "refreshDigest.success"}
    /\ ops' = Logged(p[1], <<ResponseEvent(p[2], TRUE, data),
                             CallbackEvent("success", Settings(p).success.fn, data)>>)
    /\ pending' = pending \ {p}
    /\ UNCHANGED <<options, cachedListItems, heap, windowOptions, helper, input, output>>

\* an error function that sends the failed request once more
CallerErrorRetrying(p) ==
    /\ p \in pending
    /\ Settings(p).error.fn # "refreshDigest.error"
    /\ CanRequest
    /\ ops' = Logged(p[1], <<ResponseEvent(p[2], FALSE, ErrorPayload(p)),
                             RequestEvent(Settings(p))>>)
    /\ pending' = (pending \ {p}) \cup {<<p[1], Len(ops[p[1]].log) + 2>>}
    /\ UNCHANGED <<options, cachedListItems, heap, windowOptions, helper, input, output>>

\* an error function that calls the caller's function without the payload
CallerErrorWithoutPayload(p) ==
    /\ p \in pending
    /\ Settings(p).error.fn # "refreshDigest.error"
    /\ ops' = Logged(p[1], <<ResponseEvent(p[2], FALSE, ErrorPayload(p)),
                             CallbackEvent("error", Settings(p).error.fn, Undefined)>>)
    /\ pending' = pending \ {p}
    /\ UNCHANGED <<options, cachedListItems, heap, windowOptions, helper, input, output>>

\* loadUrl's error function calls a function of the caller
CallerError(p) ==
    /\ p \in pending
    /\ Settings(p).error.fn # "refreshDigest.error"
    /\ ops' = Logged(p[1], <<ResponseEvent(p[2], FALSE, ErrorPayload(p)),
                             CallbackEvent("error", Settings(p).error.fn,
                                           ErrorPayload(p))>>)
    /\ pending' = pending \ {p}
    /\ UNCHANGED <<options, cachedListItems, heap, windowOptions, helper, input, output>>

\* data.<shape>.GetContextWebInformation.FormDigestValue is there and truthy
HasDigest(data, shape) ==
    /\ Has(data, shape)
    /\ Has(data[shape], "GetContextWebInformation")
    /\ Has(data[shape]["GetContextWebInformation"], "FormDigestValue")
    /\ data[shape]["GetContextWebInformation"]["FormDigestValue"] # ""

Digest(data, shape) == data[shape]["GetContextWebInformation"]["FormDigestValue"]

\* a success closure that puts the token into fresh default options
RefreshDigestSuccessResettingOptions(p, data) ==
    /\ p \in pending
    /\ Settings(p).success.fn = "refreshDigest.success"
    /\ LET callback == Settings(p).success.callback
           answer == ResponseEvent(p[2], TRUE, data)
           found == HasDigest(data, "d") \/ HasDigest(data, "value")
       IN  /\ options' =
                  IF HasDigest(data, "d")
                  THEN [DefaultOptions EXCEPT !.token = Digest(data, "d")]
                  ELSE IF HasDigest(data, "value")
                  THEN [DefaultOptions EXCEPT !.token = Digest(data, "value")]
                  ELSE options
           /\ ops' =
                  IF ~found
                  THEN Logged(p[1], <<answer, ThrowEvent(
                           "Unable to obtain SharePoint authorization token.")>>)
                  ELSE IF callback.type = "function"
                  THEN Logged(p[1], <<answer,
                                      CallbackEvent("callback", callback.name, Undefined)>>)
                  ELSE Logged(p[1], <<answer>>)
    /\ pending' = pending \ {p}
    /\ UNCHANGED <<windowOptions, cachedListItems, heap, helper, input, output>>

\* the closure `success` of refreshDigest.  loadUrl calls it as a plain
\* function (success(response)), so its `this` is the global object, not the
\* instance: `this.options = ...` assigns window.options.
RefreshDigestSuccess(p, data) ==
    /\ p \in pending
    /\ Settings(p).success.fn = "refreshDigest.success"
    /\ LET callback == Settings(p).success.callback
           answer == ResponseEvent(p[2], TRUE, data)
           found == HasDigest(data, "d") \/ HasDigest(data, "value")
       IN  /\ windowOptions' =
                  IF HasDigest(data, "d") THEN Str(Digest(data, "d"))
                  ELSE IF HasDigest(data, "value") THEN Str(Digest(data, "value"))
                  ELSE windowOptions
           /\ ops' =
                  IF ~found
                  THEN Logged(p[1], <<answer, ThrowEvent(
                           "Unable to obtain SharePoint authorization token.")>>)
                  ELSE IF callback.type = "function"
                  THEN Logged(p[1], <<answer,
                                      CallbackEvent("callback", callback.name, Undefined)>>)
                  ELSE Logged(p[1], <<answer>>)
    /\ pending' = pending \ {p}
    /\ UNCHANGED <<options, cachedListItems, heap, helper, input, output>>

\* an error closure that asks for the token once more
RefreshDigestErrorRetrying(p) ==
    /\ p \in pending
    /\ Settings(p).error.fn = "refreshDigest.error"
    /\ CanRequest
    /\ ops' = Logged(p[1], <<ResponseEvent(p[2], FALSE, ErrorPayload(p)),
                             RequestEvent(Settings(p))>>)
    /\ pending' = (pending \ {p}) \cup {<<p[1], Len(ops[p[1]].log) + 2>>}
    /\ UNCHANGED <<options, cachedListItems, heap, windowOptions, helper, input, output>>

\* the closure `error` of refreshDigest
RefreshDigestError(p) ==
    /\ p \in pending
    /\ Settings(p).error.fn = "refreshDigest.error"
    /\ ops' = Logged(p[1], <<ResponseEvent(p[2], FALSE, ErrorPayload(p)),
                             ThrowEvent("Unable to obtain SharePoint authorization token")>>)
    /\ pending' = pending \ {p}
    /\ UNCHANGED <<options, cachedListItems, heap, windowOptions, helper, input, output>>

---------------------------------------------------------------------------
(* The instance and what can happen to it *)

Init ==
    /\ \E k \in 1..Len(CtorOptions) : options = Constructor(CtorOptions[k])
    /\ cachedListItems = <<>>
    /\ heap = <<<<>>>>
    /\ windowOptions = Undefined
    /\ pending = {}
    /\ ops = <<>>
    /\ helper = ""
    /\ input = ""
    /\ output = ""

Call ==
    \/ \E listTitle \in ListTitles : Lists(listTitle)
    \/ \E k \in 1..Len(ConfigOptions) : Config(ConfigOptions[k])
    \/ GetAllItems
    \/ \E subfolderName \in SubfolderNames : GetAllItemsFromListSubfolder(subfolderName)
    \/ \E itemId \in ItemIds : GetItem(itemId)
    \/ \E item \in NewItems : CreateItem(item)
    \/ \E itemId \in UpdatedIds, item \in NewItems : UpdateItem(itemId, item)
    \/ \E itemId \in ItemIds : DeleteItem(itemId)
    \/ \E callback \in RefreshCallbacks : RefreshDigest(callback)

Answer ==
    \E p \in pending :
        \/ \E choice \in ServerChoices(Settings(p)) :
              LET data == ServerResponse(Settings(p), choice[1], choice[2])
              IN  \/ ContinueRecursiveFetch(p, data)
                  \/ CallerSuccess(p, data)
                  \/ RefreshDigestSuccess(p, data)
        \/ CallerError(p)
        \/ RefreshDigestError(p)

Next == Call \/ Answer

Spec == Init /\ [][Next]_vars

\* the transport answers every request handed to it: $.ajax calls success or
\* error once for each
FairSpec == Spec /\ WF_vars(Answer)

---------------------------------------------------------------------------
(* addMaxItems applied on its own to URLs put together from UrlParts *)

UrlParts == <<"/items", "?", "&", "$top=", "$to", "p=", "9">>

MaxItemsValues == {1, 100, 5000}

RECURSIVE Urls(_)
Urls(n) ==
    IF n = 0 THEN {""}
    ELSE Urls(n - 1) \cup {u \o UrlParts[k] : u \in Urls(n - 1), k \in 1..Len(UrlParts)}

InitUrl ==
    /\ \E m \in MaxItemsValues : options = Constructor([maxItems |-> m])
    /\ cachedListItems = <<>>
    /\ heap = <<<<>>>>
    /\ windowOptions = Undefined
    /\ pending = {}
    /\ ops = <<>>
    /\ helper = ""
    /\ input \in Urls(MaxUrlParts)
    /\ output = ""

ApplyAddMaxItems ==
    /\ helper = ""
    /\ helper' = "addMaxItems"
    /\ output' = AddMaxItems(input)
    /\ UNCHANGED <<options, cachedListItems, heap, windowOptions, pending, ops, input>>

SpecUrl == InitUrl /\ [][ApplyAddMaxItems]_vars

---------------------------------------------------------------------------
(* getListItemType and generateSingleListItemUrl applied on their own, to   *)
(* list titles put together from TitleParts and to positive identifiers;    *)
(* input is the identifier                                                  *)

TitleParts == <<"a", "B", "_", " ", "&", "{1}", "9">>

ItemIdValues == {Num(1), Num(10), Num(761)}

RECURSIVE Titles(_)
Titles(n) ==
    IF n = 0 THEN {""}
    ELSE Titles(n - 1) \cup {t \o TitleParts[k] : t \in Titles(n - 1), k \in 1..Len(TitleParts)}

InitNames ==
    /\ \E t \in Titles(MaxTitleParts) : options = Constructor([listTitle |-> t])
    /\ cachedListItems = <<>>
    /\ heap = <<<<>>>>
    /\ windowOptions = Undefined
    /\ pending = {}
    /\ ops = <<>>
    /\ helper = ""
    /\ input \in ItemIdValues
    /\ output = ""

ApplyGetListItemType ==
    /\ helper = ""
    /\ helper' = "getListItemType"
    /\ output' = GetListItemType(options.listTitle)
    /\ UNCHANGED <<options, cachedListItems, heap, windowOptions, pending, ops, input>>

ApplyGenerateSingleListItemUrl ==
    /\ helper = ""
    /\ helper' = "generateSingleListItemUrl"
    /\ output' = GenerateSingleListItemUrl(input)
    /\ UNCHANGED <<options, cachedListItems, heap, windowOptions, pending, ops, input>>

ApplyGetItemUrl ==
    /\ helper = ""
    /\ helper' = "getItem"
    /\ output' = GetItemUrl(input)
    /\ UNCHANGED <<options, cachedListItems, heap, windowOptions, pending, ops, input>>

\* replaceSharepointSpecialChars applied to the list title as a name
ApplyReplaceSharepointSpecialChars ==
    /\ helper = ""
    /\ helper' = "replaceSharepointSpecialChars"
    /\ output' = ReplaceSharepointSpecialChars(options.listTitle)
    /\ UNCHANGED <<options, cachedListItems, heap, windowOptions, pending, ops, input>>

\* and once more, to what it returned
ApplyReplaceSharepointSpecialCharsAgain ==
    /\ helper = "replaceSharepointSpecialChars"
    /\ helper' = "replaceSharepointSpecialChars twice"
    /\ output' = ReplaceSharepointSpecialChars(output)
    /\ UNCHANGED <<options, cachedListItems, heap, windowOptions, pending, ops, input>>

NextNames ==
    \/ ApplyGetListItemType
    \/ ApplyGenerateSingleListItemUrl
    \/ ApplyGetItemUrl
    \/ ApplyReplaceSharepointSpecialChars
    \/ ApplyReplaceSharepointSpecialCharsAgain

SpecNames == InitNames /\ [][NextNames]_vars

---------------------------------------------------------------------------
(* The first URL of getAllItemsFromListSubfolder worked out on its own, for  *)
(* list titles put together from TitleParts or with a question mark of their *)
(* own; input is the name of the subfolder                                   *)

QuestionTitles == {"Why?"}

SubfolderNameValues == {"Sub", "My Folder", "2024?", "{0}"}

InitFilter ==
    /\ \E t \in Titles(MaxTitleParts) \cup QuestionTitles :
          options = Constructor([listTitle |-> t])
    /\ cachedListItems = <<>>
    /\ heap = <<<<>>>>
    /\ windowOptions = Undefined
    /\ pending = {}
    /\ ops = <<>>
    /\ helper = ""
    /\ input \in SubfolderNameValues
    /\ output = ""

ApplySubfolderUrl ==
    /\ helper = ""
    /\ helper' = "getAllItemsFromListSubfolder"
    /\ output' = SubfolderUrl(input)
    /\ UNCHANGED <<options, cachedListItems, heap, windowOptions, pending, ops, input>>

SpecFilter == InitFilter /\ [][ApplySubfolderUrl]_vars

---------------------------------------------------------------------------
(* Reading the history *)

\* call o is a fetch of all items made with recursiveFetch on / off
IsRecursiveFetch(o) == ops[o].name \in FetchNames /\ ops[o].options.recursiveFetch
IsSingleFetch(o) == ops[o].name \in FetchNames /\ ~ops[o].options.recursiveFetch

Requests(o) == EventsOf(ops[o].log, "request")
Responses(o) == EventsOf(ops[o].log, "response")
Throws(o) == EventsOf(ops[o].log, "throw")
Callbacks(o, via) ==
    {k \in EventsOf(ops[o].log, "callback") : ops[o].log[k].via = via}

\* the answers with a page, in the order they came
IsPage(e) == e.kind = "response" /\ e.ok
Pages(o) == SelectSeq(ops[o].log, IsPage)

\* what the server put into a response, whatever the client makes of it;
\* an empty next-link is no link
ItemsIn(payload) == IF Has(payload, "d") THEN payload.d.results ELSE payload.value
HasLink(payload) ==
    IF Has(payload, "d")
    THEN Has(payload.d, "__next") /\ payload.d.__next # ""
    ELSE Has(payload, "odata.nextLink") /\ payload["odata.nextLink"] # ""
LinkIn(payload) ==
    IF Has(payload, "d") THEN payload.d.__next ELSE payload["odata.nextLink"]

\* the items of the first n pages, one page after the other
RECURSIVE ItemsOfPages(_, _)
ItemsOfPages(pages, n) ==
    IF n = 0 THEN <<>> ELSE ItemsOfPages(pages, n - 1) \o ItemsIn(pages[n].payload)

\* the chain of pages of call o came to its end: the last page had no next-link
ChainEnded(o) ==
    /\ Pages(o) # <<>>
    /\ ~HasLink(Pages(o)[Len(Pages(o))].payload)

\* 0 or the empty string
ZeroOrEmpty(v) ==
    \/ v.type = "number" /\ v.num = 0
    \/ v.type = "string" /\ v.str = ""

---------------------------------------------------------------------------
(* The claims *)

\* C1: a getAllItems with recursiveFetch on, with no other operation on the
\* instance in between, invokes the caller's success continuation exactly once
\* when the chain of pages has ended (and not before), with the items of all
\* the pages in page order, after exactly as many transport calls as pages.
C1_RecursiveFetchDeliversAllPages ==
    \A o \in Ops :
        (ops[o].name = "getAllItems" /\ IsRecursiveFetch(o) /\ ops[o].alone) =>
            LET delivered == Callbacks(o, "success")
                n == Len(Pages(o))
            IN  /\ Cardinality(delivered) = IF ChainEnded(o) THEN 1 ELSE 0
                /\ ChainEnded(o) =>
                      /\ \A c \in delivered :
                            /\ ItemsIn(ops[o].log[c].arg) = ItemsOfPages(Pages(o), n)
                            /\ ops[o].log[c].fn = ops[o].options.onsuccess
                      /\ Cardinality(Requests(o)) = n
                      /\ Cardinality(Responses(o)) = n

C1_Witness ==
    \E o \in Ops :
        /\ ops[o].name = "getAllItems" /\ IsRecursiveFetch(o) /\ ops[o].alone
        /\ ChainEnded(o)
        /\ Len(Pages(o)) = 3
        /\ Callbacks(o, "success") # {}

\* C2: when the transport fails on a page of a recursive fetch, the failure
\* continuation is invoked exactly once, with the error payload of that page,
\* and the success continuation is not invoked for that operation.
C2_PageFailureReportedOnce ==
    \A o \in Ops :
        IsRecursiveFetch(o) =>
            \A k \in Responses(o) :
                ~ops[o].log[k].ok =>
                    /\ Callbacks(o, "success") = {}
                    /\ \E c \in Callbacks(o, "error") :
                          /\ Callbacks(o, "error") = {c}
                          /\ ops[o].log[c].arg = ops[o].log[k].payload
                          /\ ops[o].log[c].fn
                                 = ops[o].log[ops[o].log[k].request].settings.error.fn

C2_Witness ==
    \E o \in Ops :
        /\ IsRecursiveFetch(o)
        /\ Cardinality(Requests(o)) >= 2
        /\ \E k \in Responses(o) : ~ops[o].log[k].ok
        /\ Callbacks(o, "error") # {}

\* C3: an operation never has more than one request outstanding, and a
\* follow-up request of a recursive fetch is issued in the step in which the
\* answer to the page before it is handled: that answer is the last event
\* before the request, it answers the latest request, its items are appended
\* to the buffer in that step and its next-link is the URL of the request.
C3_PagesFetchedOneAtATime ==
    [][\A o \in 1..Len(ops') :
          /\ Cardinality({p \in pending' : p[1] = o}) <= 1
          /\ (o \in Ops /\ IsRecursiveFetch(o)) =>
                \A k \in (Len(ops[o].log) + 1)..Len(ops'[o].log) :
                    ops'[o].log[k].kind = "request" =>
                        LET answer == ops'[o].log[k - 1]
                        IN  /\ answer.kind = "response" /\ answer.ok
                            /\ \A r \in Requests(o) : r <= answer.request
                            /\ HasLink(answer.payload)
                            /\ LinkIn(answer.payload) = ops'[o].log[k].settings.url
                            /\ cachedListItems'
                                   = cachedListItems \o ItemsIn(answer.payload)
      ]_vars

C3_Witness ==
    \E o \in Ops :
        /\ IsRecursiveFetch(o)
        /\ Cardinality(Requests(o)) >= 2
        /\ Outstanding(o) # {}
        /\ cachedListItems # <<>>

\* C4: a getAllItems or getAllItemsFromListSubfolder with recursiveFetch off
\* makes exactly one transport call; on success the caller's success
\* continuation gets the response as it came, and no further request is
\* made, next-link or not.
C4_SingleFetchMakesOneRequest ==
    \A o \in Ops :
        IsSingleFetch(o) =>
            /\ Cardinality(Requests(o)) = 1
            /\ \A k \in Responses(o) :
                  ops[o].log[k].ok =>
                      \E c \in Callbacks(o, "success") :
                          /\ Callbacks(o, "success") = {c}
                          /\ ops[o].log[c].arg = ops[o].log[k].payload
                          /\ ops[o].log[c].fn = ops[o].options.onsuccess

C4_Witness ==
    \E o \in Ops :
        /\ IsSingleFetch(o)
        /\ \E k \in Responses(o) : ops[o].log[k].ok /\ HasLink(ops[o].log[k].payload)
        /\ Callbacks(o, "success") # {}
        /\ Outstanding(o) = {}

\* C5: getItem with the identifier 0 or "" throws at once: no request is
\* handed to the transport and no continuation is invoked.
C5_GetItemRejectsEmptyId ==
    \A o \in Ops :
        (ops[o].name = "getItem" /\ ZeroOrEmpty(ops[o].args[1])) =>
            /\ Requests(o) = {}
            /\ EventsOf(ops[o].log, "callback") = {}
            /\ Len(ops[o].log) = 1 /\ ops[o].log[1].kind = "throw"

C5_Witness ==
    /\ \E o \in Ops : ops[o].name = "getItem" /\ ops[o].args[1] = Num(0)
    /\ \E o \in Ops : ops[o].name = "getItem" /\ ops[o].args[1] = Str("")

\* C6: deleteItem with the identifier 0 or "" throws before any request is
\* handed to the transport.
C6_DeleteItemRejectsEmptyId ==
    \A o \in Ops :
        (ops[o].name = "deleteItem" /\ ZeroOrEmpty(ops[o].args[1])) =>
            /\ Requests(o) = {}
            /\ Throws(o) # {}

\* the verb a call of deleteItem or updateItem stands for ("" for the others)
LogicalVerb(o) ==
    CASE ops[o].name = "deleteItem" -> "DELETE"
      [] ops[o].name = "updateItem" -> "MERGE"
      [] OTHER -> ""

\* C7: every request of deleteItem and updateItem goes out as a POST with
\* X-HTTP-METHOD set to the verb and IF-MATCH set to "*"; no request goes out
\* as DELETE, PATCH or MERGE; the requests of the other operations have
\* neither of the two headers.
C7_DeleteAndUpdateSentAsPost ==
    \A o \in Ops :
        \A k \in Requests(o) :
            LET rq == ops[o].log[k].settings
            IN  /\ rq.type \notin {"DELETE", "PATCH", "MERGE"}
                /\ IF LogicalVerb(o) # ""
                   THEN /\ rq.type = "POST"
                        /\ Has(rq.headers, "X-HTTP-METHOD")
                        /\ rq.headers["X-HTTP-METHOD"] = LogicalVerb(o)
                        /\ Has(rq.headers, "IF-MATCH")
                        /\ rq.headers["IF-MATCH"] = "*"
                   ELSE /\ ~Has(rq.headers, "X-HTTP-METHOD")
                        /\ ~Has(rq.headers, "IF-MATCH")

C7_Witness ==
    /\ \E o \in Ops : ops[o].name = "deleteItem" /\ Requests(o) # {}
    /\ \E o \in Ops : ops[o].name = "updateItem" /\ Requests(o) # {}

\* C8: every request, a follow-up page of a recursive fetch included, has
\* the Accept header and the content type of the verbosity configured when
\* it is issued, and the X-RequestDigest header of the token configured then.
C8_RequestsCarryVerbosityAndToken ==
    [][\A o \in 1..Len(ops') :
          \A k \in 1..Len(ops'[o].log) :
              (/\ ops'[o].log[k].kind = "request"
               /\ o > Len(ops) \/ k > Len(ops[o].log)) =>
                  LET rq == ops'[o].log[k].settings
                  IN  /\ rq.headers["Accept"] = options.verbosity
                      /\ rq.contentType = options.verbosity
                      /\ rq.headers["X-RequestDigest"] = options.token
      ]_vars

C8_Witness ==
    \E o \in Ops :
        \E k \in Requests(o) :
            /\ k > 1
            /\ ops[o].log[k].settings.headers["Accept"] = COMPACT
            /\ ops[o].log[k].settings.headers["X-RequestDigest"] = "digest2"

\* C9: once refreshDigest has been answered with the token in one of the two
\* known shapes, the token is in the options of the instance (unless config
\* was called since) and the callback has run once.
C9_RefreshStoresToken ==
    \A o \in Ops :
        (/\ ops[o].name = "refreshDigest"
         /\ \E k \in Responses(o) :
               /\ ops[o].log[k].ok
               /\ \/ HasDigest(ops[o].log[k].payload, "d")
                  \/ HasDigest(ops[o].log[k].payload, "value")
         /\ \A later \in Ops : later > o => ops[later].name # "config") =>
            /\ options.token = ServerDigest
            /\ Cardinality(Callbacks(o, "callback")) = 1

\* what addMaxItems is to return for the URL in input
WithPageLimit ==
    input \o (IF \E i \in 1..Len(input) : CharAt(input, i) = "?" THEN "&" ELSE "?")
          \o "$top=" \o NumberToString(options.maxItems)

\* C10 as stated: addMaxItems(url) is url, then "?" if url has no "?" and "&"
\* otherwise, then "$top=" and maxItems, and for every url it has exactly one
\* "$top=".
C10_ExactlyOnePageLimit ==
    helper = "addMaxItems" =>
        /\ output = WithPageLimit
        /\ Occurrences(output, "$top=") = 1

\* C10 as amended: addMaxItems(url) is url, then "?" if url has no "?" and
\* "&" otherwise, then "$top=" and maxItems; it has one "$top=" more than
\* url, so exactly one when url has none.
C10_OneMorePageLimit ==
    helper = "addMaxItems" =>
        /\ output = WithPageLimit
        /\ Occurrences(output, "$top=") = Occurrences(input, "$top=") + 1
        /\ Occurrences(input, "$top=") = 0 => Occurrences(output, "$top=") = 1

C10_Witness ==
    /\ helper = "addMaxItems"
    /\ Includes(input, "?")
    /\ Occurrences(input, "$top=") = 0
    /\ Occurrences(output, "&$top=") = 1

\* the escape sequence of a character of a list item type
EscapeOf(c) ==
    CASE c = "_" -> "_x005f_"
      [] c = " " -> "_x0020_"
      [] c = "&" -> "_x0026_"
      [] OTHER -> c

\* the first n characters of s, each replaced by its escape sequence
RECURSIVE EscapedUpTo(_, _)
EscapedUpTo(s, n) ==
    IF n = 0 THEN "" ELSE EscapedUpTo(s, n - 1) \o EscapeOf(CharAt(s, n))

\* C11: getListItemType(listTitle) is 'SP.Data.' + capitalized listTitle +
\* 'ListItem' with each underscore, space and ampersand of that string
\* replaced by its escape sequence and nothing else changed: the underscores
\* of the escape sequences of spaces and ampersands are not escaped again.
C11_ListItemTypeEscapedOnce ==
    helper = "getListItemType" =>
        LET type == "SP.Data." \o Capitalize(options.listTitle) \o "ListItem"
        IN  output = EscapedUpTo(type, Len(type))

C11_Witness ==
    /\ helper = "getListItemType"
    /\ Includes(options.listTitle, " ")
    /\ Includes(options.listTitle, "_")
    /\ Occurrences(output, "_x0020_") = 1
    /\ Occurrences(output, "_x005f_") = 1

\* C14: for a list title that is not empty and a positive identifier,
\* generateSingleListItemUrl, and getItem for its request, give siteUrl, then
\* "/_api/web/lists/getbytitle('", the list title, "')/items(", the
\* identifier and ")": both values are there, each in its place.
C14_ItemUrlHasTitleAndId ==
    (/\ helper \in {"generateSingleListItemUrl", "getItem"}
     /\ options.listTitle # ""
     /\ input.num > 0) =>
        output = options.siteUrl \o "/_api/web/lists/getbytitle('" \o options.listTitle
                     \o "')/items(" \o NumberToString(input.num) \o ")"

C14_Witness ==
    /\ helper = "generateSingleListItemUrl"
    /\ Includes(options.listTitle, "{1}")
    /\ input = Num(761)
    /\ Occurrences(output, "761") = 1

\* C12: where continueRecursiveFetch looks for the items and the next-link
\* of a page is decided by the verbosity configured when the page is handled.
\* Verbose: response.d.results is appended to the buffer and a non-empty
\* response.d.__next is the URL of the one follow-up request.  Otherwise:
\* response.value and response['odata.nextLink'].  No next-link, an empty
\* one, or a response of the other shape: no follow-up request.
C12_PageReadByVerbosity ==
    [][\A o \in Ops :
          \A k \in (Len(ops[o].log) + 1)..Len(ops'[o].log) :
              LET e == ops'[o].log[k]
              IN  (/\ e.kind = "response" /\ e.ok
                   /\ ops[o].log[e.request].settings.success.fn = "continueRecursiveFetch") =>
                      LET data == e.payload
                          follow == {j \in (k + 1)..Len(ops'[o].log) :
                                         ops'[o].log[j].kind = "request"}
                          onlyTo(url) == \E j \in follow :
                                             /\ follow = {j}
                                             /\ ops'[o].log[j].settings.url = url
                      IN  IF options.verbosity = VERBOSE
                          THEN IF Has(data, "d") /\ Has(data.d, "results")
                               THEN /\ cachedListItems' = cachedListItems \o data.d.results
                                    /\ IF Has(data.d, "__next") /\ data.d.__next # ""
                                       THEN onlyTo(data.d.__next)
                                       ELSE follow = {}
                               ELSE follow = {}
                          ELSE IF Has(data, "value")
                               THEN /\ cachedListItems' = cachedListItems \o data.value
                                    /\ IF /\ Has(data, "odata.nextLink")
                                          /\ data["odata.nextLink"] # ""
                                       THEN onlyTo(data["odata.nextLink"])
                                       ELSE follow = {}
                               ELSE follow = {}
      ]_vars

C12_Witness ==
    \E o \in Ops :
        /\ IsRecursiveFetch(o)
        /\ \E k \in Responses(o) :
              LET data == ops[o].log[k].payload
              IN  /\ ops[o].log[k].ok
                  /\ Has(data, "odata.nextLink") /\ data["odata.nextLink"] # ""
                  /\ ops[o].log[k + 1].kind = "request"
        /\ \E k \in Responses(o) :
              LET data == ops[o].log[k].payload
              IN  /\ ops[o].log[k].ok
                  /\ Has(data, "odata.nextLink") /\ data["odata.nextLink"] = ""
                  /\ ops[o].log[k + 1].kind = "callback"

\* C13: when continueRecursiveFetch handles a page without next-link that is
\* in the shape of the configured verbosity, and the buffer holds no earlier
\* page, the result it hands to the success continuation has the shape of
\* the response (d.results for Verbose, value otherwise) and the items of
\* the page: the same items in the same order, nothing added.
C13_SinglePageRoundTrip ==
    [][\A o \in Ops :
          \A k \in (Len(ops[o].log) + 1)..Len(ops'[o].log) :
              LET e == ops'[o].log[k]
              IN  (/\ e.kind = "response" /\ e.ok
                   /\ ops[o].log[e.request].settings.success.fn = "continueRecursiveFetch"
                   /\ Has(e.payload, "d") <=> options.verbosity = VERBOSE
                   /\ ~HasLink(e.payload)
                   /\ cachedListItems = <<>>) =>
                      /\ Len(ops'[o].log) = k + 1
                      /\ LET delivery == ops'[o].log[k + 1]
                         IN  /\ delivery.kind = "callback" /\ delivery.via = "success"
                             /\ Has(delivery.arg, "d") <=> Has(e.payload, "d")
                             /\ Has(delivery.arg, "value") <=> Has(e.payload, "value")
                             /\ IF Has(e.payload, "d")
                                THEN /\ DOMAIN delivery.arg = {"d"}
                                     /\ DOMAIN delivery.arg.d = {"results"}
                                     /\ delivery.arg.d.results = e.payload.d.results
                                ELSE /\ DOMAIN delivery.arg = {"value"}
                                     /\ delivery.arg.value = e.payload.value
      ]_vars

C13_Witness ==
    \E o \in Ops :
        /\ IsRecursiveFetch(o) /\ ops[o].alone
        /\ Cardinality(Requests(o)) = 1
        /\ Len(Pages(o)) = 1
        /\ Has(Pages(o)[1].payload, "value")
        /\ \E c \in Callbacks(o, "success") :
              ops[o].log[c].arg.value = Pages(o)[1].payload.value

\* an element of a result that is an item of a list
IsItem(e) == e.type = "item"

\* C15: a fetch of all items started while a recursive fetch has a request
\* outstanding empties the buffer; the page any recursive fetch handles is
\* appended to that one buffer, whichever operation asked for it, and what
\* is delivered is the buffer.  (The witness is a result that is not the
\* pages of one operation in order.)
C15_OneBufferForAllFetches ==
    [][/\ (/\ Len(ops') = Len(ops) + 1
           /\ ops'[Len(ops')].name \in FetchNames
           /\ \E o \in Ops : IsRecursiveFetch(o) /\ Outstanding(o) # {}) =>
              cachedListItems' = <<>>
       /\ \A o \in Ops :
             \A k \in (Len(ops[o].log) + 1)..Len(ops'[o].log) :
                 LET e == ops'[o].log[k]
                 IN  (/\ e.kind = "response" /\ e.ok
                      /\ ops[o].log[e.request].settings.success.fn
                             = "continueRecursiveFetch"
                      /\ Has(e.payload, "d") <=> options.verbosity = VERBOSE) =>
                         /\ cachedListItems' = cachedListItems \o ItemsIn(e.payload)
                         /\ \A c \in (k + 1)..Len(ops'[o].log) :
                               ops'[o].log[c].kind = "callback" =>
                                   ItemsIn(ops'[o].log[c].arg) = cachedListItems'
      ]_vars

C15_Witness ==
    \E o \in Ops :
        /\ IsRecursiveFetch(o)
        /\ Len(Pages(o)) = 2
        /\ \E c \in Callbacks(o, "success") :
              LET got == ItemsIn(ops[o].log[c].arg)
              IN  /\ \A i \in 1..Len(got) : IsItem(got[i])
                  /\ got # ItemsOfPages(Pages(o), 2)
                  /\ \E i, j \in 1..Len(got) : got[i].list # got[j].list

\* every fetch of all items so far was started with no request of a fetch
\* outstanding
OneAfterTheOther == \A o \in Ops : ops[o].name \in FetchNames => ops[o].quiet

\* C16: every start of getAllItems and getAllItemsFromListSubfolder empties
\* the buffer; and as long as the fetches are run one after the other, the
\* items in the result of each are items of its own pages, in their order,
\* and none of an earlier operation.
C16_BufferResetByEveryFetch ==
    /\ [][(Len(ops') = Len(ops) + 1 /\ ops'[Len(ops')].name \in FetchNames) =>
              cachedListItems' = <<>>]_vars
    /\ [](OneAfterTheOther =>
             \A o \in Ops :
                 ops[o].name \in FetchNames =>
                     \A c \in Callbacks(o, "success") :
                         LET got == SelectSeq(ItemsIn(ops[o].log[c].arg), IsItem)
                             own == ItemsOfPages(Pages(o), Len(Pages(o)))
                         IN  /\ Len(got) <= Len(own)
                             /\ got = SubSeq(own, 1, Len(got)))

C16_Witness ==
    /\ Len(ops) = 2
    /\ OneAfterTheOther
    /\ \A o \in Ops :
          /\ IsRecursiveFetch(o)
          /\ \E c \in Callbacks(o, "success") :
                ItemsIn(ops[o].log[c].arg) = ItemsOfPages(Pages(o), Len(Pages(o)))
    /\ Len(Pages(2)) = 2

\* C17: whenever continueRecursiveFetch handles a response, the verbosity
\* mode it reads the response by (and wraps the result by) is the mode that
\* was sent in the Accept header of the request the response answers.
C17_ReadInTheModeRequested ==
    [][\A o \in Ops :
          \A k \in (Len(ops[o].log) + 1)..Len(ops'[o].log) :
              LET e == ops'[o].log[k]
              IN  (/\ e.kind = "response" /\ e.ok
                   /\ ops[o].log[e.request].settings.success.fn = "continueRecursiveFetch") =>
                      (options.verbosity = VERBOSE
                          <=> ops[o].log[e.request].settings.headers["Accept"] = VERBOSE)
      ]_vars

\* C18: a fetch of all items goes on to its end with the continuations, the
\* verbosity and the token configured when it was started, whatever config()
\* or lists() changed since.
C18_FetchKeepsItsConfiguration ==
    \A o \in Ops :
        ops[o].name \in FetchNames =>
            /\ \A k \in Requests(o) :
                  LET rq == ops[o].log[k].settings
                  IN  /\ rq.headers["Accept"] = ops[o].options.verbosity
                      /\ rq.headers["X-RequestDigest"] = ops[o].options.token
            /\ \A c \in Callbacks(o, "success") :
                  ops[o].log[c].fn = ops[o].options.onsuccess
            /\ \A c \in Callbacks(o, "error") :
                  ops[o].log[c].fn = ops[o].options.onerror

\* C19: when a page does not have the container of the configured verbosity
\* (d.results for Verbose, value otherwise), the failure continuation is
\* invoked and the success continuation is not.
C19_MalformedPageReported ==
    [][\A o \in Ops :
          \A k \in (Len(ops[o].log) + 1)..Len(ops'[o].log) :
              LET e == ops'[o].log[k]
                  after == (k + 1)..Len(ops'[o].log)
              IN  (/\ e.kind = "response" /\ e.ok
                   /\ ops[o].log[e.request].settings.success.fn = "continueRecursiveFetch"
                   /\ IF options.verbosity = VERBOSE
                      THEN ~(Has(e.payload, "d") /\ Has(e.payload.d, "results"))
                      ELSE ~Has(e.payload, "value")) =>
                      /\ \E c \in after : /\ ops'[o].log[c].kind = "callback"
                                          /\ ops'[o].log[c].via = "error"
                      /\ \A c \in after : ops'[o].log[c].kind = "callback" =>
                                              ops'[o].log[c].via # "success"
      ]_vars

\* C20: once the transport has failed a request of an operation, the
\* operation hands no further request to the transport (the failed request
\* is its last, and none is outstanding) and delivers nothing: no success
\* continuation and no callback is invoked for it, so the pages it had
\* accumulated never reach the caller as its result.
C20_NoRetryNoPartialResult ==
    \A o \in Ops :
        \A k \in Responses(o) :
            ~ops[o].log[k].ok =>
                /\ \A r \in Requests(o) : r < k
                /\ Outstanding(o) = {}
                /\ Callbacks(o, "success") = {}
                /\ Callbacks(o, "callback") = {}

C20_Witness ==
    \E o \in Ops :
        /\ IsRecursiveFetch(o) /\ ops[o].alone
        /\ Len(Pages(o)) >= 1
        /\ \E k \in Responses(o) : ~ops[o].log[k].ok
        /\ cachedListItems = ItemsOfPages(Pages(o), Len(Pages(o)))
        /\ cachedListItems # <<>>

\* every page answered to call o so far came with a next-link
AllLinked(o) ==
    \A k \in Responses(o) : ops[o].log[k].ok /\ HasLink(ops[o].log[k].payload)

\* a continuation of the caller was invoked for call o
Completed(o) == Callbacks(o, "success") \cup Callbacks(o, "error") # {}

\* C21: when every request is answered in the end and the server comes to a
\* page without next-link, every recursive fetch of all items is followed by
\* an invocation of a continuation of the caller (success or error); and as
\* long as every page of it came with a next-link, the fetch has invoked none
\* and has its next request outstanding.
C21_FetchEndsWhenLinksEnd ==
    /\ \A o \in 1..MaxCalls :
          (o \in Ops /\ IsRecursiveFetch(o)) ~> (o \in Ops /\ Completed(o))
    /\ [](\A o \in Ops :
             (IsRecursiveFetch(o) /\ AllLinked(o)) =>
                 /\ ~Completed(o)
                 /\ Outstanding(o) # {})

\* the answer e to a request of refreshDigest brought no token: the transport
\* failed, or the response has it in neither of the two shapes
WithoutToken(e) ==
    \/ ~e.ok
    \/ ~(HasDigest(e.payload, "d") \/ HasDigest(e.payload, "value"))

TokenUnavailable ==
    {"Unable to obtain SharePoint authorization token.",
     "Unable to obtain SharePoint authorization token"}

\* C22: when the answer to the request of refreshDigest brings no token (in
\* neither known shape, or the transport failed), the step that handles it
\* throws the token-unavailable error, leaves the configured token as it was
\* and issues no request; the callback is never run for that call and its
\* one request stays its only one.
C22_RefreshFailsWithoutToken ==
    /\ [][\A o \in Ops :
             \A k \in (Len(ops[o].log) + 1)..Len(ops'[o].log) :
                 LET e == ops'[o].log[k]
                 IN  (/\ ops[o].name = "refreshDigest"
                      /\ e.kind = "response"
                      /\ WithoutToken(e)) =>
                         /\ Len(ops'[o].log) = k + 1
                         /\ ops'[o].log[k + 1].kind = "throw"
                         /\ ops'[o].log[k + 1].message \in TokenUnavailable
                         /\ options'.token = options.token
                         /\ pending' = pending \ {<<o, e.request>>}
         ]_vars
    /\ [](\A o \in Ops :
             (/\ ops[o].name = "refreshDigest"
              /\ \E k \in Responses(o) : WithoutToken(ops[o].log[k])) =>
                 /\ Callbacks(o, "callback") = {}
                 /\ Cardinality(Requests(o)) = 1
                 /\ Outstanding(o) = {})

C22_Witness ==
    /\ \E o \in Ops :
          /\ ops[o].name = "refreshDigest"
          /\ \E k \in Responses(o) : ops[o].log[k].ok /\ WithoutToken(ops[o].log[k])
          /\ Throws(o) # {}
    /\ \E o \in Ops :
          /\ ops[o].name = "refreshDigest"
          /\ \E k \in Responses(o) : ~ops[o].log[k].ok
          /\ Throws(o) # {}
    /\ options.token = RequestDigest

\* C23: updateItem with a falsy identifier (0, "", undefined) throws before
\* any request is handed to the transport.
C23_UpdateItemRejectsFalsyId ==
    \A o \in Ops :
        (ops[o].name = "updateItem" /\ Falsy(ops[o].args[1])) =>
            /\ Requests(o) = {}
            /\ Throws(o) # {}

\* the methods that are given an item to send
BodyNames == {"createItem", "updateItem"}

\* the item the caller gave to call o (the last argument)
ItemOf(o) == ops[o].args[Len(ops[o].args)]

\* the JSON text of an item (one without __metadata of its own) once
\* __metadata.type has been added to it
BodyWithType(item, type) ==
    "{" \o StringifyProps(item.props, 1) \o (IF item.props # <<>> THEN "," ELSE "")
        \o "\"__metadata\":{\"type\":\"" \o type \o "\"}}"

\* C24: createItem and updateItem hand exactly one request to the transport,
\* and its body is the JSON text of the item given with __metadata.type set to
\* getListItemType of the list title configured at the call; every request of
\* any other operation has the empty string as its body.
C24_BodyOnlyForCreateAndUpdate ==
    \A o \in Ops :
        IF ops[o].name \in BodyNames
        THEN /\ Cardinality(Requests(o)) = 1
             /\ \A k \in Requests(o) :
                   ops[o].log[k].settings.data
                       = BodyWithType(ItemOf(o), GetListItemType(ops[o].options.listTitle))
        ELSE \A k \in Requests(o) : ops[o].log[k].settings.data = ""

C24_Witness ==
    /\ \E o \in Ops :
          /\ ops[o].name = "createItem"
          /\ ops[o].log[1].settings.data
                 = "{\"Title\":\"x\",\"__metadata\":{\"type\":\"SP.Data.ProjectsListItem\"}}"
    /\ \E o \in Ops :
          /\ ops[o].name = "updateItem"
          /\ ops[o].log[1].settings.data
                 = "{\"Title\":\"x\",\"__metadata\":{\"type\":\"SP.Data.ProjectsListItem\"}}"

DoubleEscapedSpace == "_x005f_x0020_x005f_"

\* C26 as stated: the second run of replaceSharepointSpecialChars, on the
\* name the first run returned, does not escape the underscores the first
\* run put in for spaces: no "_x0020_" comes out with its underscores
\* escaped, and a name whose only special characters were spaces comes out
\* of the second run as it went in.
C26_SecondRunKeepsSpaceEscapes ==
    helper = "replaceSharepointSpecialChars twice" =>
        LET name == options.listTitle
            first == EscapedUpTo(name, Len(name))
        IN  /\ Occurrences(output, DoubleEscapedSpace) = 0
            /\ (Occurrences(name, "_") = 0 /\ Occurrences(name, "&") = 0) =>
                   output = first

\* C26 as amended: the first run returns the name with each underscore, space
\* and ampersand replaced by its escape sequence; the second run escapes
\* every underscore of that result, the ones put in for spaces included: each
\* space of the name comes out as "_x005f_x0020_x005f_", and the result is
\* longer by six characters for every underscore of the first.
C26_SecondRunEscapesAgain ==
    LET name == options.listTitle
        first == EscapedUpTo(name, Len(name))
    IN  /\ helper = "replaceSharepointSpecialChars" => output = first
        /\ helper = "replaceSharepointSpecialChars twice" =>
               /\ output = EscapedUpTo(first, Len(first))
               /\ Occurrences(output, DoubleEscapedSpace) = Occurrences(name, " ")
               /\ Len(output) = Len(first) + 6 * Occurrences(first, "_")

C26_Witness ==
    /\ helper = "replaceSharepointSpecialChars twice"
    /\ options.listTitle = "a B"
    /\ output = "a_x005f_x0020_x005f_B"

\* C27: the buffer is the items of the pages whose page continuation has run
\* since the latest start of a fetch of all items, in the order they ran.
\* Step by step: a step that starts a fetch leaves the buffer empty; a step
\* in which continueRecursiveFetch handles a page leaves it longer by the
\* items of that page; every other step leaves it as it was.
C27_BufferIsPagesSinceLastStart ==
    [][IF Len(ops') = Len(ops) + 1
       THEN IF ops'[Len(ops')].name \in FetchNames
            THEN cachedListItems' = <<>>
            ELSE cachedListItems' = cachedListItems
       ELSE \A o \in Ops :
               \A k \in (Len(ops[o].log) + 1)..Len(ops'[o].log) :
                   LET e == ops'[o].log[k]
                   IN  e.kind = "response" =>
                           IF /\ e.ok
                              /\ ops[o].log[e.request].settings.success.fn
                                     = "continueRecursiveFetch"
                           THEN cachedListItems' = cachedListItems \o ItemsIn(e.payload)
                           ELSE cachedListItems' = cachedListItems
      ]_vars

\* C28: a call config(partial) gives every field named in partial the value
\* partial has for it and leaves every other field of the options with the
\* value it had just before the call, whoever set it.
C28_ConfigChangesOnlyNamedFields ==
    [][(Len(ops') = Len(ops) + 1 /\ ops'[Len(ops')].name = "config") =>
          LET partial == ops'[Len(ops')].args[1]
          IN  /\ DOMAIN options' = DOMAIN options \cup DOMAIN partial
              /\ \A field \in DOMAIN options' :
                    options'[field] = IF field \in DOMAIN partial THEN partial[field]
                                      ELSE options[field]
      ]_vars

C28_Witness ==
    /\ Len(ops) = 2
    /\ ops[1].name = "lists"
    /\ ops[2].name = "config"
    /\ DOMAIN ops[2].args[1] = {"recursiveFetch"}
    /\ options.listTitle = "My List"
    /\ options.onsuccess = "s1"
    /\ options.recursiveFetch = FALSE
    /\ options.listTitle # DefaultOptions.listTitle
    /\ options.onsuccess # DefaultOptions.onsuccess

\* the methods that work on the items of the configured list
ListOperationNames ==
    {"getAllItems", "getAllItemsFromListSubfolder", "getItem", "createItem",
     "updateItem", "deleteItem"}

\* s starts with prefix
StartsWith(s, prefix) == Len(s) >= Len(prefix) /\ SubSeq(s, 1, Len(prefix)) = prefix

\* call o is a refreshDigest that got the token and ran its callback
RefreshCompleted(o) ==
    /\ ops[o].name = "refreshDigest"
    /\ Callbacks(o, "callback") # {}

\* C29: the step in which refreshDigest handles its answer leaves every
\* field of the options but the token as it was; and a list operation called
\* right after a completed refreshDigest finds the options the refreshDigest
\* was called with and builds its request from them: the URL from siteUrl,
\* the item URL template and listTitle (and maxItems for a collection), the
\* headers from verbosity, the continuations from recursiveFetch, onsuccess
\* and onerror.
C29_RefreshKeepsConfiguration ==
    /\ [][\A o \in Ops :
             (ops[o].name = "refreshDigest" /\ Len(ops'[o].log) > Len(ops[o].log)) =>
                 /\ DOMAIN options' = DOMAIN options
                 /\ \A field \in DOMAIN options \ {"token"} :
                       options'[field] = options[field]
         ]_vars
    /\ [](\A o \in Ops :
             (/\ RefreshCompleted(o)
              /\ o + 1 \in Ops
              /\ ops[o + 1].alone
              /\ ops[o + 1].name \in ListOperationNames
              /\ Requests(o + 1) # {}) =>
                 LET before == ops[o].options
                     rq == ops[o + 1].log[1].settings
                     collection == before.siteUrl \o "/_api/web/lists/getbytitle('"
                                       \o before.listTitle \o "')/items"
                 IN  /\ \A field \in DOMAIN before \ {"token"} :
                           ops[o + 1].options[field] = before[field]
                     /\ StartsWith(rq.url, collection)
                     /\ ops[o + 1].name \in FetchNames \cup {"createItem"} =>
                           StartsWith(rq.url, collection \o "?$top="
                                                  \o NumberToString(before.maxItems))
                     /\ rq.headers["Accept"] = before.verbosity
                     /\ rq.contentType = before.verbosity
                     /\ rq.error.fn = before.onerror
                     /\ rq.success.fn = IF /\ ops[o + 1].name \in FetchNames
                                            /\ before.recursiveFetch
                                         THEN "continueRecursiveFetch"
                                         ELSE before.onsuccess)

C29_Witness ==
    \E o \in Ops :
        /\ RefreshCompleted(o)
        /\ o + 1 \in Ops
        /\ ops[o + 1].alone
        /\ ops[o + 1].name = "getAllItems"
        /\ ops[o + 1].log[1].settings.url
               = "http://sp/sites/a/_api/web/lists/getbytitle('Projects')/items?$top=100"
        /\ ops[o + 1].log[1].settings.error.fn = "e1"

\* the deliveries of results of recursive fetches in the log of call o
Deliveries(o) == {c \in Callbacks(o, "success") : Has(ops[o].log[c], "ref")}

\* C30: the array of items handed to the success continuation by a recursive
\* fetch holds, in every later state, the items it held when it was handed
\* over: whatever is called or answered afterwards, the buffer is given a new
\* array and the delivered one is left alone.  (The buffer is the newest
\* array.)
C30_DeliveredItemsNeverChange ==
    /\ cachedListItems = heap[Len(heap)]
    /\ \A o \in Ops :
          \A c \in Deliveries(o) :
              heap[ops[o].log[c].ref] = ItemsIn(ops[o].log[c].arg)

C30_Witness ==
    \E o \in Ops :
        \E c \in Deliveries(o) :
            /\ o + 1 \in Ops
            /\ IsRecursiveFetch(o + 1)
            /\ Len(Pages(o + 1)) = 1
            /\ Len(heap) > ops[o].log[c].ref + 1
            /\ heap[ops[o].log[c].ref] = ItemsOfPages(Pages(o), Len(Pages(o)))
            /\ heap[ops[o].log[c].ref] # <<>>
            /\ cachedListItems # heap[ops[o].log[c].ref]
            /\ cachedListItems # <<>>

====
